---------------------------- MODULE Spec2Model ----------------------------
(***************************************************************************)
(* Online-learning orchestration of the lost-and-found ML service:         *)
(* src/ml-service/online_learning.py (OnlineLearningBuffer,                *)
(* ModelVersioning, OnlineModelUpdater) and src/ml-service/scheduler.py    *)
(* (RetrainingScheduler and start_scheduler / stop_scheduler).             *)
(*                                                                         *)
(* Threads are Python threads of one process: caller threads that run      *)
(* add_lost_item_report or trigger_retraining, and the scheduler's         *)
(* background threads that run run_scheduler.  A step of the model is      *)
(* a stretch of one thread's code with at most one write of a shared       *)
(* object (a file, the in-memory ledger); reads that follow one another    *)
(* with no write between them are taken in the same step.                  *)
(*                                                                         *)
(* A sample is abstracted to its composite key (timestamp, location,       *)
(* itemType) and its label incident_occurred; the other columns are        *)
(* carried along unchanged by every operation and are left out.  Time is   *)
(* counted in whole hours.  The backup copy historical_training_data.csv   *)
(* is written once and never read, and is left out.                        *)
(*                                                                         *)
(* Spec runs the callers against the thread of a started scheduler, whose  *)
(* loop is reduced to its checks.  SeqSpec runs one caller alone on a      *)
(* fresh service.  LifeSpec runs start_scheduler, stop_scheduler and       *)
(* stop() against the background threads they create, each executing       *)
(* run_scheduler with its checks and their retrains in full.               *)
(* CrashSpec is Spec with a crash and restart of the process at any        *)
(* point.  QuietFairSpec runs the scheduler's checks alone, again and      *)
(* again, on a service that receives no report.  WriteFailSpec is Spec     *)
(* on a disk whose writes of the buffer file can fail half-way.            *)
(***************************************************************************)
EXTENDS Integers, Sequences, FiniteSets, TLC

\* ---------------------------------------------------------------- constants
RETRAIN_THRESHOLD == 10
AUTO_RETRAIN_INTERVAL_HOURS == 24
CHECK_INTERVAL_HOURS == 1    \* check_interval_minutes=60

\* ------------------------------------------------------------------- bounds
MaxOps == 2              \* operations started in one behaviour
MaxTicks == 1            \* clock advances in one behaviour
MaxSeqOps == 11          \* reports of the sequential caller: the threshold and one more
MaxObjects == 2          \* RetrainingScheduler objects constructed
MaxCalls == 3            \* calls of the scheduler's start and stop functions
MaxChecks == 2           \* check_and_retrain runs of the background threads
MaxRestarts == 1         \* crashes of the process, each followed by a restart

\* Two caller threads and the background threads start_background creates;
\* SchedulerThread is the one the service starts with.
Callers == {"caller1", "caller2"}
SchedulerThread == "scheduler"
LoopThreads == {SchedulerThread, "scheduler2"}
Threads == Callers \cup LoopThreads
NoThread == "none"

\* RetrainingScheduler objects, in the order in which start_scheduler
\* constructs them; NoObject is None.
Objects == 1..MaxObjects
NoObject == 0

\* Reports a caller may ingest: one whose key is already in the stored data
\* and one whose key is new.
ReportKeys == {1, RETRAIN_THRESHOLD + 2}
Reports == {[key |-> k, incident_occurred |-> 1] : k \in ReportKeys}

\* Buffer contents persisted by earlier runs of the process.
InitBufferSizes == {0, RETRAIN_THRESHOLD - 1}
BufferOfSize(n) == [i \in 1..n |-> [key |-> i, incident_occurred |-> 1]]

\* The composite keys of a sequence of rows.
KeysOf(rows) == {rows[i].key : i \in 1..Len(rows)}

\* What the process finds on disk when it starts: each file may be absent.
AbsentBuffer == [exists |-> FALSE, torn |-> FALSE, rows |-> <<>>]
AbsentLedger == [exists |-> FALSE, rows |-> <<>>]
AbsentDataset == [exists |-> FALSE, rows |-> <<>>]
PersistedBuffers ==
    {AbsentBuffer} \cup
    {[exists |-> TRUE, torn |-> FALSE, rows |-> BufferOfSize(n)] :
        n \in InitBufferSizes}
PersistedLedgers ==
    {AbsentLedger,
     [exists |-> TRUE,
      rows |-> <<[version |-> 1, timestamp |-> 0, training_samples |-> 1,
                  new_samples_added |-> 0]>>]}
\* training_data.csv is supplied from outside (main.py lines 422-438 store
\* an uploaded file as it is), so it may repeat a key.
PersistedDatasets ==
    {AbsentDataset,
     [exists |-> TRUE, rows |-> <<[key |-> 1, incident_occurred |-> 0]>>],
     [exists |-> TRUE, rows |-> <<[key |-> 1, incident_occurred |-> 0],
                                 [key |-> 1, incident_occurred |-> 1]>>]}

\* The clock advances to just under the retrain interval or to it.
TickSteps == {AUTO_RETRAIN_INTERVAL_HOURS - 1, AUTO_RETRAIN_INTERVAL_HOURS}

VARIABLES
    buffer_file,         \* new_samples.csv: [exists, torn, rows]
    lock,                \* OnlineLearningBuffer.lock: its holder or NoThread
    versions,            \* ModelVersioning.versions, the in-memory ledger
    version_file,        \* model_version.json, the persisted ledger
    training_data_file,  \* training_data.csv: [exists, rows]
    model_file,          \* risk_model.pkl: [exists, rows]
    now,                 \* datetime.now(), in hours
    last_check,          \* each RetrainingScheduler's last_check (-1: None)
    last_retrain,        \* each RetrainingScheduler's last_retrain (-1: None)
    pc,                  \* each thread's position
    loc,                 \* each thread's locals and the call's record
    accepted,            \* rows add_sample has appended, earlier runs' included
    ops,                 \* operations started so far
    ticks,               \* clock advances so far
    scheduler,           \* scheduler.py's global scheduler: an object or NoObject
    nobj,                \* RetrainingScheduler objects constructed so far
    is_running,          \* each RetrainingScheduler's is_running
    thread,              \* each RetrainingScheduler's thread (NoThread: None)
    loop,                \* each background thread's position in run_scheduler
    self_of,             \* the object each background thread runs on
    cur_obj,             \* the object whose check_and_retrain a thread executes
    jobs,                \* the schedule module's job list: [obj, next_run]
    todo,                \* run_pending's runnable jobs still to run, per thread
    api,                 \* the start/stop caller's position: [pc, obj, fn]
    calls,               \* start and stop calls made so far
    stop_called,         \* objects stopped since their thread was started
    failed_checks,       \* objects one of whose checks ended in a failed retrain
    since_clear,         \* add_sample calls completed since the last clear_buffer
    model_data,          \* main.py's model_data, the artifact predictions use
    restarts,            \* restarts of the process after a crash
    accepted_keys        \* composite keys of the rows counted by accepted

lifeVars == <<scheduler, nobj, is_running, thread, loop, self_of, cur_obj,
              jobs, todo, api, calls, stop_called, failed_checks>>

vars == <<buffer_file, lock, versions, version_file, training_data_file,
          model_file, now, last_check, last_retrain, pc, loc, accepted,
          ops, ticks, lifeVars, since_clear, model_data, restarts,
          accepted_keys>>

sharedFiles == <<buffer_file, lock, versions, version_file,
                 training_data_file, model_file>>
schedVars == <<last_check, last_retrain>>
histVars == <<accepted, since_clear, model_data, restarts, accepted_keys>>

\* ------------------------------------------------- OnlineLearningBuffer
EmptyBuffer == [exists |-> TRUE, torn |-> FALSE, rows |-> <<>>]

\* _initialize_buffer: writes the header-only file only when none exists.
_initialize_buffer_always(bf) == EmptyBuffer
_initialize_buffer(bf) == IF ~bf.exists THEN EmptyBuffer ELSE bf

\* clear_buffer's body, run under the lock.
clear_buffer_empties(bf) == EmptyBuffer
clear_buffer(bf) == _initialize_buffer(bf)

\* get_buffer_size: the row count; 0 for a missing file and 0 when read_csv
\* raises, which it does on the 0-byte file a writer has opened and not yet
\* written.
get_buffer_size(bf) ==
    IF bf.exists THEN (IF bf.torn THEN 0 ELSE Len(bf.rows)) ELSE 0

\* get_buffer_data: read_csv without a try; it raises on the 0-byte file.
get_buffer_data_raises(bf) == bf.exists /\ bf.torn
get_buffer_data(bf) == IF bf.exists THEN bf.rows ELSE <<>>

\* `with self.lock`: the lock is taken only when no thread holds it.
CanAcquireUnlocked(l) == TRUE
CanAcquire(l) == l = NoThread

\* ------------------------------------------------------------ main.py
\* model_data before load_model ran, and when no artifact was ever loaded.
NoModel == [exists |-> FALSE, rows |-> 0]

\* load_model (main.py lines 151-162): the artifact file is loaded into
\* model_data when it exists, else model_data is left as it is.
load_model(md, mf) == IF mf.exists THEN mf ELSE md

\* ------------------------------------------------------ ModelVersioning
\* _load_versions: the file's list, [] for a missing file.
_load_versions(vf) == IF vf.exists THEN vf.rows ELSE <<>>

\* add_version's 'version' field.
NextVersionNumber(vs) == Len(vs) + 1

NewVersion(n, ts, training_samples, new_samples) ==
    [version |-> n, timestamp |-> ts,
     training_samples |-> training_samples,
     new_samples_added |-> new_samples]

\* get_latest_version: self.versions[-1], None for an empty ledger.
HasLatestVersion(vs) == Len(vs) > 0
get_latest_version(vs) == vs[Len(vs)]
LatestVersionNumber(vs) ==
    IF HasLatestVersion(vs) THEN get_latest_version(vs).version ELSE 0

\* --------------------------------------------------- OnlineModelUpdater
\* should_retrain, with the branch that returns: the size check (line 173),
\* the time check (line 183) or neither (line 185).
should_retrain_strict(size, vs, t) ==
    IF size > RETRAIN_THRESHOLD THEN "SIZE_THRESHOLD"
    ELSE IF HasLatestVersion(vs)
            /\ t - get_latest_version(vs).timestamp >= AUTO_RETRAIN_INTERVAL_HOURS
         THEN "TIME_ELAPSED"
         ELSE "NONE"
should_retrain_late(size, vs, t) ==
    IF size >= RETRAIN_THRESHOLD THEN "SIZE_THRESHOLD"
    ELSE IF HasLatestVersion(vs)
            /\ t - get_latest_version(vs).timestamp > AUTO_RETRAIN_INTERVAL_HOURS
         THEN "TIME_ELAPSED"
         ELSE "NONE"
should_retrain(size, vs, t) ==
    IF size >= RETRAIN_THRESHOLD THEN "SIZE_THRESHOLD"
    ELSE IF HasLatestVersion(vs)
            /\ t - get_latest_version(vs).timestamp >= AUTO_RETRAIN_INTERVAL_HOURS
         THEN "TIME_ELAPSED"
         ELSE "NONE"

\* drop_duplicates(subset = the composite key, keep='last').
RECURSIVE drop_duplicates_keep_first(_)
drop_duplicates_keep_first(rows) ==
    IF rows = <<>> THEN <<>>
    ELSE IF \E j \in 1..(Len(rows) - 1) : rows[j].key = rows[Len(rows)].key
         THEN drop_duplicates_keep_first(SubSeq(rows, 1, Len(rows) - 1))
         ELSE drop_duplicates_keep_first(SubSeq(rows, 1, Len(rows) - 1))
                  \o <<rows[Len(rows)]>>
drop_duplicates_none(rows) == rows
RECURSIVE drop_duplicates(_)
drop_duplicates(rows) ==
    IF rows = <<>> THEN <<>>
    ELSE IF \E j \in 2..Len(rows) : rows[j].key = rows[1].key
         THEN drop_duplicates(Tail(rows))
         ELSE <<rows[1]>> \o drop_duplicates(Tail(rows))

\* merge_training_data line 201: new_samples_count = len(df_new), taken
\* before the concat and the drop_duplicates.
count_new_samples_after_dedup(df_new) == Len(drop_duplicates(df_new))
count_new_samples(df_new) == Len(df_new)

NoResult == [success |-> FALSE, version |-> 0, new_samples_added |-> 0,
             total_samples |-> 0, error |-> "none"]
Failure(err) == [NoResult EXCEPT !.error = err]

\* retrain_model's except clause (lines 317-325): the call returns a failure.
except_handler_silent(err) ==
    [pc |-> "ret", result |-> [Failure(err) EXCEPT !.success = TRUE]]
except_handler_continues(err) == [pc |-> "rt_version", result |-> Failure(err)]
except_handler(err) == [pc |-> "ret", result |-> Failure(err)]

\* add_lost_item_report's return value (lines 351-375) for a call with
\* locals l that has come to position p: success is add_sample's result,
\* and the retrain_result key is present when retrain_model was called.
add_lost_item_report_response_strict(l, p) ==
    [success |-> l.sample_added /\ (p = "ret" => l.result.success),
     will_retrain_soon |-> l.decision # "NONE",
     has_retrain_result |-> p = "ret",
     retrain_result |-> l.result]
add_lost_item_report_response_size_only(l, p) ==
    [success |-> l.sample_added,
     will_retrain_soon |-> l.buffer_size >= RETRAIN_THRESHOLD,
     has_retrain_result |-> p = "ret",
     retrain_result |-> l.result]
add_lost_item_report_response(l, p) ==
    [success |-> l.sample_added,
     will_retrain_soon |-> l.decision # "NONE",
     has_retrain_result |-> p = "ret",
     retrain_result |-> l.result]

\* report_lost_item's response (main.py lines 476-490), built from
\* add_lost_item's result r: its success is the constant True.
report_lost_item_response(r) ==
    [success |-> TRUE,
     will_retrain_soon |-> r.success /\ r.will_retrain_soon,
     retrain_triggered |-> r.has_retrain_result,
     retrain_result |-> r.retrain_result]

\* A thread's locals, and what its current call has done so far.
InitLoc == [op |-> "none",
            sample |-> [key |-> 0, incident_occurred |-> 0],
            df_existing |-> <<>>,
            buffer_size |-> 0,
            decision |-> "NONE",
            df_new |-> <<>>,
            df_combined |-> <<>>,
            new_samples_count |-> 0,
            total_samples |-> 0,
            version_no |-> 0,
            version_ts |-> 0,
            result |-> NoResult,
            sample_added |-> FALSE,
            contended |-> FALSE,
            latest_at_call |-> 0,
            overlapped |-> {},
            late_rows |-> <<>>,
            post |-> 0,
            did_save |-> FALSE,
            did_append |-> FALSE,
            did_clear |-> FALSE]

RetrainPCs == {"rt_merge", "rt_write", "rt_train", "rt_save", "rt_version",
               "rt_append", "rt_savever", "rt_clear"}
\* Positions after the retrain's read of the buffer and before its return.
AfterSnapshotPCs == RetrainPCs \ {"rt_merge"}

InRetrain(t) == pc[t] \in RetrainPCs

\* A thread may start an operation.
CanStart(t) ==
    /\ pc[t] = "idle"
    /\ ops < MaxOps

\* No RetrainingScheduler was constructed yet (scheduler.py lines 129-130,
\* 33-44).
NoApiCall == [pc |-> "idle", obj |-> NoObject, fn |-> "none"]
SchedulerNotStarted ==
    /\ scheduler = NoObject
    /\ nobj = 0
    /\ is_running = [o \in Objects |-> FALSE]
    /\ thread = [o \in Objects |-> NoThread]
    /\ loop = [t \in LoopThreads |-> "unborn"]
    /\ self_of = [t \in LoopThreads |-> NoObject]
    /\ cur_obj = [t \in LoopThreads |-> NoObject]
    /\ jobs = <<>>
    /\ todo = [t \in LoopThreads |-> <<>>]
    /\ api = NoApiCall
    /\ calls = 0
    /\ stop_called = {}
    /\ failed_checks = {}

\* The service has started its scheduler (main.py line 269) and the
\* background thread is past its start-up check, in its loop.
SchedulerStarted ==
    /\ scheduler = 1
    /\ nobj = 1
    /\ is_running = [o \in Objects |-> o = 1]
    /\ thread = [o \in Objects |-> IF o = 1 THEN SchedulerThread ELSE NoThread]
    /\ loop = [t \in LoopThreads |-> IF t = SchedulerThread THEN "while" ELSE "unborn"]
    /\ self_of = [t \in LoopThreads |-> IF t = SchedulerThread THEN 1 ELSE NoObject]
    /\ cur_obj = [t \in LoopThreads |-> IF t = SchedulerThread THEN 1 ELSE NoObject]
    /\ jobs = <<[obj |-> 1, next_run |-> CHECK_INTERVAL_HOURS]>>
    /\ todo = [t \in LoopThreads |-> <<>>]
    /\ api = NoApiCall
    /\ calls = 0
    /\ stop_called = {}
    /\ failed_checks = {}

\* The constructors have run on what was on disk (lines 51-54, 118-120,
\* 160-164): the buffer file exists, the ledger is loaded.
Init ==
    /\ \E bf \in PersistedBuffers : buffer_file = _initialize_buffer(bf)
    /\ lock = NoThread
    /\ \E vf \in PersistedLedgers : versions = _load_versions(vf)
    /\ version_file = versions
    /\ training_data_file \in PersistedDatasets
    /\ model_file = [exists |-> FALSE, rows |-> 0]
    /\ now = 0
    /\ last_check = [o \in Objects |-> -1]
    /\ last_retrain = [o \in Objects |-> -1]
    /\ pc = [t \in Threads |-> "idle"]
    /\ loc = [t \in Threads |-> InitLoc]
    /\ accepted = Len(buffer_file.rows)
    /\ since_clear = accepted
    /\ accepted_keys = KeysOf(buffer_file.rows)
    /\ model_data = load_model(NoModel, model_file)
    /\ restarts = 0
    /\ ops = 0
    /\ ticks = 0
    /\ SchedulerStarted

\* ------------------------------------------------------------- helpers
\* loc after thread t enters retrain_model: the call's record starts, and
\* calls that are in retrain_model at the same time are marked.
EnterRetrain(l, t) ==
    [u \in Threads |->
        IF u = t
        THEN [l[t] EXCEPT !.latest_at_call = LatestVersionNumber(versions),
                          !.overlapped = {v \in Threads \ {t} : InRetrain(v)}]
        ELSE IF InRetrain(u) THEN [l[u] EXCEPT !.overlapped = @ \cup {t}]
        ELSE l[u]]

\* loc after thread t's add_sample has appended row s: the retrains that
\* have read the buffer and not yet cleared it record the late row, the
\* retrains that have returned count it.
NoteAppend(l, t, s) ==
    [u \in Threads |->
        IF u = t THEN l[t]
        ELSE IF pc[u] \in AfterSnapshotPCs
             THEN [l[u] EXCEPT !.late_rows = Append(@, s)]
        ELSE IF pc[u] = "ret" THEN [l[u] EXCEPT !.post = @ + 1]
        ELSE l[u]]

\* ------------------------------------------------ add_lost_item_report
\* A caller starts add_lost_item_report(s) (lines 342-349).
StartIngest(t, s) ==
    /\ t \in Callers
    /\ CanStart(t)
    /\ ops' = ops + 1
    /\ loc' = [loc EXCEPT ![t] = [InitLoc EXCEPT !.op = "ingest", !.sample = s]]
    /\ pc' = [pc EXCEPT ![t] = "add_sample"]
    /\ UNCHANGED <<sharedFiles, schedVars, now, histVars, ticks>>
    /\ UNCHANGED lifeVars

\* add_sample, lines 70-83: the lock is taken and the file is read.  The
\* call notes whether another thread was at the lock at that moment.
AddSampleRead(t) ==
    /\ pc[t] = "add_sample"
    /\ CanAcquire(lock)
    /\ ~get_buffer_data_raises(buffer_file)
    /\ lock' = t
    /\ loc' = [loc EXCEPT ![t].df_existing = get_buffer_data(buffer_file),
                          ![t].contended =
                              \E u \in Threads \ {t} : pc[u] = "add_sample"]
    /\ pc' = [pc EXCEPT ![t] = "add_open"]
    /\ UNCHANGED <<buffer_file, versions, version_file, training_data_file,
                   model_file, schedVars, now, histVars, ops, ticks>>
    /\ UNCHANGED lifeVars

\* add_sample, line 85: to_csv opens the file for writing, which leaves a
\* 0-byte file until the rows are written.
AddSampleOpen(t) ==
    /\ pc[t] = "add_open"
    /\ buffer_file' = [exists |-> TRUE, torn |-> TRUE, rows |-> <<>>]
    /\ pc' = [pc EXCEPT ![t] = "add_write"]
    /\ UNCHANGED <<lock, versions, version_file, training_data_file,
                   model_file, schedVars, now, loc, histVars, ops, ticks>>
    /\ UNCHANGED lifeVars

\* add_sample, lines 85-87: the combined rows are written, the lock is
\* released and True is returned.
AddSampleWrite(t) ==
    /\ pc[t] = "add_write"
    /\ buffer_file' = [exists |-> TRUE, torn |-> FALSE,
                       rows |-> Append(loc[t].df_existing, loc[t].sample)]
    /\ lock' = NoThread
    /\ accepted' = accepted + 1
    /\ accepted_keys' = accepted_keys \cup {loc[t].sample.key}
    /\ since_clear' = since_clear + 1
    /\ loc' = [NoteAppend(loc, t, loc[t].sample) EXCEPT ![t].sample_added = TRUE]
    /\ pc' = [pc EXCEPT ![t] = "rd_should"]
    /\ UNCHANGED <<versions, version_file, training_data_file, model_file,
                   schedVars, now, ops, ticks, model_data, restarts>>
    /\ UNCHANGED lifeVars

\* add_sample, lines 88-90, then add_lost_item_report lines 351-355: an
\* exception before the file is rewritten; False is returned and the report
\* is refused.
AddSampleFail(t) ==
    /\ pc[t] = "add_sample"
    /\ CanAcquire(lock)
    /\ loc' = [loc EXCEPT ![t].result = Failure("buffer")]
    /\ pc' = [pc EXCEPT ![t] = "done"]
    /\ UNCHANGED <<sharedFiles, schedVars, now, histVars, ops, ticks>>
    /\ UNCHANGED lifeVars

\* What to_csv (line 85) leaves of the file when it raises after it has
\* opened it: the file was truncated on opening and holds nothing or the
\* header and the first k of the rows it was given.
PartialBufferFiles(rows) ==
    {[exists |-> TRUE, torn |-> TRUE, rows |-> <<>>]} \cup
    {[exists |-> TRUE, torn |-> FALSE, rows |-> SubSeq(rows, 1, k)] :
        k \in 0..(Len(rows) - 1)}

\* add_sample, lines 85 and 88-90: to_csv raises while it writes (the disk
\* is full, the device fails); the except clause returns False, the lock is
\* released and add_lost_item_report refuses the report (lines 351-355).
AddSampleWriteRaise(t) ==
    /\ pc[t] = "add_write"
    /\ \E bf \in PartialBufferFiles(Append(loc[t].df_existing, loc[t].sample)) :
          buffer_file' = bf
    /\ lock' = NoThread
    /\ loc' = [loc EXCEPT ![t].result = Failure("buffer")]
    /\ pc' = [pc EXCEPT ![t] = "done"]
    /\ UNCHANGED <<versions, version_file, training_data_file, model_file,
                   schedVars, now, histVars, ops, ticks>>
    /\ UNCHANGED lifeVars

\* add_lost_item_report lines 358-372 and get_buffer_status lines 394-400
\* with scheduler.py lines 57-66: get_buffer_size() for the reply, then
\* should_retrain() (its own get_buffer_size(), the latest version and the
\* clock, read back to back) and the branch on it.
EvalShouldRetrain_resets(t) ==
    /\ pc[t] = "rd_should"
    /\ LET size == get_buffer_size(buffer_file)
           d == should_retrain(size, versions, now)
           l1 == [loc EXCEPT ![t].buffer_size = size, ![t].decision = d]
       IN IF d # "NONE"
          THEN /\ loc' = EnterRetrain(l1, t)
               /\ pc' = [pc EXCEPT ![t] = "rt_merge"]
               /\ UNCHANGED buffer_file
          ELSE /\ loc' = l1
               /\ pc' = [pc EXCEPT ![t] = "done"]
               /\ buffer_file' = _initialize_buffer_always(buffer_file)
    /\ UNCHANGED <<lock, versions, version_file, training_data_file,
                   model_file, schedVars, now, histVars, ops, ticks>>
    /\ UNCHANGED lifeVars
EvalShouldRetrain(t) ==
    /\ pc[t] = "rd_should"
    /\ LET size == get_buffer_size(buffer_file)
           d == should_retrain(size, versions, now)
           l1 == [loc EXCEPT ![t].buffer_size = size, ![t].decision = d]
       IN IF d # "NONE"
          THEN /\ loc' = EnterRetrain(l1, t)
               /\ pc' = [pc EXCEPT ![t] = "rt_merge"]
          ELSE /\ loc' = l1
               /\ pc' = [pc EXCEPT ![t] = "done"]
    /\ UNCHANGED <<sharedFiles, schedVars, now, histVars, ops, ticks>>
    /\ UNCHANGED lifeVars

\* ---------------------------------------------------- trigger_retraining
\* A caller starts trigger_retraining() (lines 387-389).
StartManual(t) ==
    /\ t \in Callers
    /\ CanStart(t)
    /\ ops' = ops + 1
    /\ loc' = EnterRetrain([loc EXCEPT ![t] = [InitLoc EXCEPT !.op = "manual"]], t)
    /\ pc' = [pc EXCEPT ![t] = "rt_merge"]
    /\ UNCHANGED <<sharedFiles, schedVars, now, histVars, ticks>>
    /\ UNCHANGED lifeVars

\* ----------------------------------------------------- check_and_retrain
\* The scheduler thread starts a tick (scheduler.py lines 46-57).
SchedTick(t) ==
    /\ t = SchedulerThread
    /\ CanStart(t)
    /\ ops' = ops + 1
    /\ last_check' = [last_check EXCEPT ![self_of[t]] = now]
    /\ loc' = [loc EXCEPT ![t] = [InitLoc EXCEPT !.op = "tick"]]
    /\ pc' = [pc EXCEPT ![t] = "rd_should"]
    /\ UNCHANGED <<sharedFiles, last_retrain, now, histVars, ticks>>
    /\ UNCHANGED lifeVars

\* ---------------------------------------------------------- retrain_model
\* retrain_model line 239: `len(df_combined) == 0`.
no_training_data_never(df_combined) == FALSE
no_training_data(df_combined) == Len(df_combined) = 0

\* merge_training_data lines 191-215 and retrain_model lines 237-244: the
\* historical file and the buffer are read (no other step writes both, so
\* the two reads are one step) and merged.
MergeRead(t) ==
    /\ pc[t] = "rt_merge"
    /\ ~get_buffer_data_raises(buffer_file)
    /\ LET df_historical == IF training_data_file.exists
                            THEN training_data_file.rows ELSE <<>>
           df_new == get_buffer_data(buffer_file)
           n == count_new_samples(df_new)
       IN IF n > 0
          THEN /\ loc' = [loc EXCEPT ![t].df_new = df_new,
                                     ![t].new_samples_count = n,
                                     ![t].df_combined =
                                         drop_duplicates(df_historical \o df_new)]
               /\ pc' = [pc EXCEPT ![t] = "rt_write"]
          ELSE IF no_training_data(df_historical)
          THEN /\ loc' = [loc EXCEPT ![t].result = Failure("no_data")]
               /\ pc' = [pc EXCEPT ![t] = "ret"]
          ELSE /\ loc' = [loc EXCEPT ![t].df_combined = df_historical]
               /\ pc' = [pc EXCEPT ![t] = "rt_train"]
    /\ UNCHANGED <<sharedFiles, schedVars, now, histVars, ops, ticks>>
    /\ UNCHANGED lifeVars

\* get_buffer_data raises on the file a writer has opened: the except
\* clause returns a failure.
MergeReadRaise(t) ==
    /\ pc[t] = "rt_merge"
    /\ get_buffer_data_raises(buffer_file)
    /\ loc' = [loc EXCEPT ![t].result = except_handler("buffer_read").result]
    /\ pc' = [pc EXCEPT ![t] = except_handler("buffer_read").pc]
    /\ UNCHANGED <<sharedFiles, schedVars, now, histVars, ops, ticks>>
    /\ UNCHANGED lifeVars

\* merge_training_data line 218: the merged rows become training_data.csv.
MergeWrite(t) ==
    /\ pc[t] = "rt_write"
    /\ training_data_file' = [exists |-> TRUE, rows |-> loc[t].df_combined]
    /\ pc' = [pc EXCEPT ![t] = "rt_train"]
    /\ UNCHANGED <<buffer_file, lock, versions, version_file, model_file,
                   schedVars, now, loc, histVars, ops, ticks>>
    /\ UNCHANGED lifeVars

\* retrain_model lines 247-265: the Training Routine reads
\* training_data.csv again and fits the models.
TrainOk(t) ==
    /\ pc[t] = "rt_train"
    /\ loc' = [loc EXCEPT ![t].total_samples = Len(training_data_file.rows)]
    /\ pc' = [pc EXCEPT ![t] = "rt_save"]
    /\ UNCHANGED <<sharedFiles, schedVars, now, histVars, ops, ticks>>
    /\ UNCHANGED lifeVars

\* The Training Routine raises.
TrainRaise(t) ==
    /\ pc[t] = "rt_train"
    /\ loc' = [loc EXCEPT ![t].result = except_handler("train").result]
    /\ pc' = [pc EXCEPT ![t] = except_handler("train").pc]
    /\ UNCHANGED <<sharedFiles, schedVars, now, histVars, ops, ticks>>
    /\ UNCHANGED lifeVars

\* retrain_model line 268: save_model writes the artifact.
SaveModel(t) ==
    /\ pc[t] = "rt_save"
    /\ model_file' = [exists |-> TRUE, rows |-> loc[t].total_samples]
    /\ loc' = [loc EXCEPT ![t].did_save = TRUE]
    /\ pc' = [pc EXCEPT ![t] = "rt_version"]
    /\ UNCHANGED <<buffer_file, lock, versions, version_file,
                   training_data_file, schedVars, now, histVars, ops, ticks>>
    /\ UNCHANGED lifeVars

\* add_version lines 136-142: the record is built from len(self.versions)
\* and the clock.
AddVersionBuild(t) ==
    /\ pc[t] = "rt_version"
    /\ loc' = [loc EXCEPT ![t].version_no = NextVersionNumber(versions),
                          ![t].version_ts = now]
    /\ pc' = [pc EXCEPT ![t] = "rt_append"]
    /\ UNCHANGED <<sharedFiles, schedVars, now, histVars, ops, ticks>>
    /\ UNCHANGED lifeVars

\* add_version line 143: the record is appended to the in-memory ledger.
AddVersionAppend(t) ==
    /\ pc[t] = "rt_append"
    /\ versions' = Append(versions,
                          NewVersion(loc[t].version_no, loc[t].version_ts,
                                     loc[t].total_samples,
                                     loc[t].new_samples_count))
    /\ loc' = [loc EXCEPT ![t].did_append = TRUE]
    /\ pc' = [pc EXCEPT ![t] = "rt_savever"]
    /\ UNCHANGED <<buffer_file, lock, version_file, training_data_file,
                   model_file, schedVars, now, histVars, ops, ticks>>
    /\ UNCHANGED lifeVars

\* add_version line 144: _save_versions dumps the in-memory ledger.
SaveVersions(t) ==
    /\ pc[t] = "rt_savever"
    /\ version_file' = versions
    /\ pc' = [pc EXCEPT ![t] = "rt_clear"]
    /\ UNCHANGED <<buffer_file, lock, versions, training_data_file,
                   model_file, schedVars, now, loc, histVars, ops, ticks>>
    /\ UNCHANGED lifeVars

\* _save_versions raises (the file cannot be opened for writing): the
\* exception leaves add_version and reaches retrain_model's except clause.
SaveVersionsRaise(t) ==
    /\ pc[t] = "rt_savever"
    /\ loc' = [loc EXCEPT ![t].result = except_handler("ledger").result]
    /\ pc' = [pc EXCEPT ![t] = except_handler("ledger").pc]
    /\ UNCHANGED <<sharedFiles, schedVars, now, histVars, ops, ticks>>
    /\ UNCHANGED lifeVars

\* retrain_model lines 296-315: clear_buffer under the lock, then the
\* success result is returned.
ClearBuffer(t) ==
    /\ pc[t] = "rt_clear"
    /\ CanAcquire(lock)
    /\ buffer_file' = clear_buffer(buffer_file)
    /\ loc' = [loc EXCEPT ![t].did_clear = TRUE,
                          ![t].result =
                              [success |-> TRUE,
                               version |-> loc[t].version_no,
                               new_samples_added |-> loc[t].new_samples_count,
                               total_samples |-> loc[t].total_samples,
                               error |-> "none"]]
    /\ pc' = [pc EXCEPT ![t] = "ret"]
    /\ since_clear' = 0
    /\ UNCHANGED <<lock, versions, version_file, training_data_file,
                   model_file, schedVars, now, accepted, accepted_keys,
                   model_data, restarts,
                   ops, ticks>>
    /\ UNCHANGED lifeVars

\* model_data after an operation op that ended with result: of the three
\* callers of retrain_model only trigger_manual_retraining calls load_model
\* (main.py lines 519-523), and only after a success; report_lost_item
\* (main.py lines 476-490) and check_and_retrain (scheduler.py lines 66-74)
\* do not.
reload_after(op, result, md, mf) ==
    IF op = "manual" /\ result.success THEN load_model(md, mf) ELSE md

\* check_and_retrain lines 66-74: last_retrain of object o after
\* trigger_retraining() returned result at time t.
record_last_retrain_always(lr, o, result, t) == [lr EXCEPT ![o] = t]
record_last_retrain(lr, o, result, t) ==
    IF result.success THEN [lr EXCEPT ![o] = t] ELSE lr

\* The operation ends.  After a retrain the scheduler records last_retrain
\* when the result is a success (scheduler.py lines 68-69), and the manual
\* endpoint reloads the model when it is one (main.py lines 519-523).
Finish(t) ==
    /\ pc[t] \in {"ret", "done"}
    /\ model_data' = reload_after(loc[t].op, loc[t].result, model_data, model_file)
    /\ last_retrain' = IF pc[t] = "ret" /\ loc[t].op = "tick"
                       THEN record_last_retrain(last_retrain, cur_obj[t],
                                                loc[t].result, now)
                       ELSE last_retrain
    /\ loc' = [loc EXCEPT ![t] = InitLoc]
    /\ pc' = [pc EXCEPT ![t] = "idle"]
    /\ UNCHANGED <<sharedFiles, last_check, now, accepted, accepted_keys,
                   since_clear,
                   restarts, ops, ticks>>
    /\ UNCHANGED lifeVars

\* Time passes.
Tick ==
    /\ ticks < MaxTicks
    /\ ticks' = ticks + 1
    /\ \E d \in TickSteps : now' = now + d
    /\ UNCHANGED <<sharedFiles, schedVars, pc, loc, histVars, ops>>
    /\ UNCHANGED lifeVars

Next ==
    \/ \E t \in Threads :
          \/ \E s \in Reports : StartIngest(t, s)
          \/ AddSampleRead(t)
          \/ AddSampleOpen(t)
          \/ AddSampleWrite(t)
          \/ AddSampleFail(t)
          \/ EvalShouldRetrain(t)
          \/ StartManual(t)
          \/ SchedTick(t)
          \/ MergeRead(t)
          \/ MergeReadRaise(t)
          \/ MergeWrite(t)
          \/ TrainOk(t)
          \/ TrainRaise(t)
          \/ SaveModel(t)
          \/ AddVersionBuild(t)
          \/ AddVersionAppend(t)
          \/ SaveVersions(t)
          \/ SaveVersionsRaise(t)
          \/ ClearBuffer(t)
          \/ Finish(t)
    \/ Tick

Spec == Init /\ [][Next]_vars

\* ---------------------------------------------------- failing disk writes
\* The service on a disk whose writes can fail: as Spec, and a to_csv of
\* add_sample may raise after it opened the buffer file.
WriteFailNext == Next \/ \E t \in Threads : AddSampleWriteRaise(t)

WriteFailSpec == Init /\ [][WriteFailNext]_vars

\* ------------------------------------------------------ crash and restart
\* What a crash leaves of the buffer file.  While a thread is inside
\* df_combined.to_csv (line 85) the file has been truncated and holds
\* nothing or the first k of the rows being written; at any other moment
\* it is whole.
RowsBeingWritten(t) == Append(loc[t].df_existing, loc[t].sample)
CrashedBufferFiles ==
    IF \E t \in Threads : pc[t] = "add_write"
    THEN LET w == CHOOSE t \in Threads : pc[t] = "add_write"
         IN {[exists |-> TRUE, torn |-> TRUE, rows |-> <<>>]} \cup
            {[exists |-> TRUE, torn |-> FALSE,
              rows |-> SubSeq(RowsBeingWritten(w), 1, k)] :
                k \in 0..Len(RowsBeingWritten(w))}
    ELSE {buffer_file}

\* The process crashes and is started again: every thread and the lock are
\* gone, the files are what the crash left, the constructors run again
\* (lines 51-54, 118-120), main.py loads the model and starts a new
\* scheduler (main.py lines 264-269).
Crash ==
    /\ restarts < MaxRestarts
    /\ restarts' = restarts + 1
    /\ \E bf \in CrashedBufferFiles : buffer_file' = _initialize_buffer(bf)
    /\ lock' = NoThread
    /\ versions' = version_file
    /\ model_data' = load_model(NoModel, model_file)
    /\ last_check' = [o \in Objects |-> -1]
    /\ last_retrain' = [o \in Objects |-> -1]
    /\ pc' = [t \in Threads |-> "idle"]
    /\ loc' = [t \in Threads |-> InitLoc]
    /\ UNCHANGED <<version_file, training_data_file, model_file, now,
                   accepted, accepted_keys, since_clear, ops, ticks>>
    /\ UNCHANGED lifeVars

CrashNext == Next \/ Crash

CrashSpec == Init /\ [][CrashNext]_vars

\* ------------------------------------------------------ a quiet service
\* No report arrives and nobody triggers a retrain: only the scheduler's
\* thread runs, one check after the other for as long as the process
\* lives (scheduler.py lines 96-98), and time passes.  The clock stops at
\* its last value; the checks that go on at that value stand for the
\* checks of all later hours, between which nothing but the clock differs.
SchedCheck(t) ==
    /\ t = SchedulerThread
    /\ pc[t] = "idle"
    /\ last_check' = [last_check EXCEPT ![self_of[t]] = now]
    /\ loc' = [loc EXCEPT ![t] = [InitLoc EXCEPT !.op = "tick"]]
    /\ pc' = [pc EXCEPT ![t] = "rd_should"]
    /\ UNCHANGED <<sharedFiles, last_retrain, now, histVars, ops, ticks>>
    /\ UNCHANGED lifeVars

SchedStep ==
    \/ SchedCheck(SchedulerThread)
    \/ EvalShouldRetrain(SchedulerThread)
    \/ MergeRead(SchedulerThread)
    \/ MergeWrite(SchedulerThread)
    \/ TrainOk(SchedulerThread)
    \/ TrainRaise(SchedulerThread)
    \/ SaveModel(SchedulerThread)
    \/ AddVersionBuild(SchedulerThread)
    \/ AddVersionAppend(SchedulerThread)
    \/ SaveVersions(SchedulerThread)
    \/ SaveVersionsRaise(SchedulerThread)
    \/ ClearBuffer(SchedulerThread)
    \/ Finish(SchedulerThread)

QuietNext == SchedStep \/ Tick

\* The scheduler's thread is scheduled again and again.
QuietFairSpec == Init /\ [][QuietNext]_vars /\ WF_vars(SchedStep)

\* ------------------------------------------------- sequential ingestion
\* One caller reports one sample after another on a fresh service: the
\* buffer file holds only its header (lines 56-66) and no model version was
\* ever recorded (lines 122-127).  No other thread runs.
SeqCaller == "caller1"

SeqInit ==
    /\ buffer_file = EmptyBuffer
    /\ lock = NoThread
    /\ versions = <<>>
    /\ version_file = versions
    /\ training_data_file \in
          {[exists |-> FALSE, rows |-> <<>>],
           [exists |-> TRUE, rows |-> <<[key |-> 1, incident_occurred |-> 0]>>]}
    /\ model_file = [exists |-> FALSE, rows |-> 0]
    /\ now = 0
    /\ last_check = [o \in Objects |-> -1]
    /\ last_retrain = [o \in Objects |-> -1]
    /\ pc = [t \in Threads |-> "idle"]
    /\ loc = [t \in Threads |-> InitLoc]
    /\ accepted = 0
    /\ since_clear = accepted
    /\ accepted_keys = KeysOf(buffer_file.rows)
    /\ model_data = load_model(NoModel, model_file)
    /\ restarts = 0
    /\ ops = 0
    /\ ticks = 0
    /\ SchedulerStarted

\* The caller's next add_lost_item_report(s), after the previous one returned.
SeqStartIngest(t, s) ==
    /\ t = SeqCaller
    /\ pc[t] = "idle"
    /\ ops < MaxSeqOps
    /\ ops' = ops + 1
    /\ loc' = [loc EXCEPT ![t] = [InitLoc EXCEPT !.op = "ingest", !.sample = s]]
    /\ pc' = [pc EXCEPT ![t] = "add_sample"]
    /\ UNCHANGED <<sharedFiles, schedVars, now, histVars, ticks>>
    /\ UNCHANGED lifeVars

SeqNext ==
    \/ \E s \in Reports : SeqStartIngest(SeqCaller, s)
    \/ AddSampleRead(SeqCaller)
    \/ AddSampleOpen(SeqCaller)
    \/ AddSampleWrite(SeqCaller)
    \/ AddSampleFail(SeqCaller)
    \/ EvalShouldRetrain(SeqCaller)
    \/ MergeRead(SeqCaller)
    \/ MergeWrite(SeqCaller)
    \/ TrainOk(SeqCaller)
    \/ TrainRaise(SeqCaller)
    \/ SaveModel(SeqCaller)
    \/ AddVersionBuild(SeqCaller)
    \/ AddVersionAppend(SeqCaller)
    \/ SaveVersions(SeqCaller)
    \/ SaveVersionsRaise(SeqCaller)
    \/ ClearBuffer(SeqCaller)
    \/ Finish(SeqCaller)
    \/ Tick

SeqSpec == SeqInit /\ [][SeqNext]_vars

\* ------------------------------------------------- RetrainingScheduler
\* threading.Thread.is_alive(): from start() until run_scheduler returns.
Alive(t) == loop[t] \notin {"unborn", "dead"}

\* `self.thread and self.thread.is_alive()` (line 102).
ThreadIsAlive(o) == thread[o] # NoThread /\ Alive(thread[o])

\* get_status() of object o (lines 119-126): the object's fields as they
\* are.
get_status(o) ==
    [is_running |-> is_running[o],
     check_interval_minutes |-> CHECK_INTERVAL_HOURS,
     last_check |-> last_check[o],
     last_retrain |-> last_retrain[o]]

\* The next thread threading.Thread(...) creates.
NewThread ==
    IF loop[SchedulerThread] = "unborn" THEN SchedulerThread ELSE "scheduler2"

\* start_background on object o (lines 100-109): nothing when its thread is
\* alive, else a new thread is created, stored and started.
start_background(o) ==
    IF ThreadIsAlive(o)
    THEN UNCHANGED <<thread, self_of, loop, stop_called>>
    ELSE /\ loop[NewThread] = "unborn"
         /\ thread' = [thread EXCEPT ![o] = NewThread]
         /\ self_of' = [self_of EXCEPT ![NewThread] = o]
         /\ loop' = [loop EXCEPT ![NewThread] = "register"]
         /\ stop_called' = stop_called \ {o}

\* thread.join(timeout=5) (line 116) returns when the thread has ended or
\* when the timeout has elapsed.
join_returns_when_dead(alive, timed_out) == ~alive
join_returns(alive, timed_out) == ~alive \/ timed_out

\* start_scheduler() (lines 133-145): the global object is constructed when
\* there is none, then start_background() is called on it.
StartScheduler ==
    /\ api.pc = "idle"
    /\ calls < MaxCalls
    /\ IF scheduler = NoObject
       THEN /\ nobj < MaxObjects
            /\ nobj' = nobj + 1
            /\ scheduler' = nobj + 1
            /\ start_background(nobj + 1)
       ELSE /\ UNCHANGED <<nobj, scheduler>>
            /\ start_background(scheduler)
    /\ calls' = calls + 1
    /\ UNCHANGED <<sharedFiles, schedVars, now, pc, loc, histVars, ops, ticks>>
    /\ UNCHANGED <<is_running, cur_obj, jobs, todo, api, failed_checks>>

\* stop() on object o, lines 113-114: is_running is set to False; the
\* caller is then at the join.
stop_begin(o, fn) ==
    /\ api.pc = "idle"
    /\ calls < MaxCalls
    /\ is_running' = [is_running EXCEPT ![o] = FALSE]
    /\ stop_called' = stop_called \cup {o}
    /\ api' = [pc |-> "join", obj |-> o, fn |-> fn]
    /\ calls' = calls + 1
    /\ UNCHANGED <<sharedFiles, schedVars, now, pc, loc, histVars, ops, ticks>>
    /\ UNCHANGED <<scheduler, nobj, thread, loop, self_of, cur_obj, jobs,
                   todo, failed_checks>>

\* The caller calls stop() on an object start_scheduler() returned to it.
StopBegin(o) ==
    /\ o \in 1..nobj
    /\ stop_begin(o, "stop")

\* stop_scheduler() (lines 148-153) with a global object: stop() on it.
StopSchedulerBegin ==
    /\ scheduler # NoObject
    /\ stop_begin(scheduler, "stop_scheduler")

\* stop_scheduler() when the global is None: nothing is done.
StopSchedulerNone ==
    /\ api.pc = "idle"
    /\ calls < MaxCalls
    /\ scheduler = NoObject
    /\ calls' = calls + 1
    /\ UNCHANGED <<sharedFiles, schedVars, now, pc, loc, histVars, ops, ticks>>
    /\ UNCHANGED <<scheduler, nobj, is_running, thread, loop, self_of, cur_obj,
                   jobs, todo, api, stop_called, failed_checks>>

\* stop() lines 115-117: the join, skipped when self.thread is None, has
\* returned; stop_scheduler() then sets the global to None (line 154).
StopJoin ==
    /\ api.pc = "join"
    /\ \E timed_out \in BOOLEAN :
          join_returns(ThreadIsAlive(api.obj), timed_out)
    /\ scheduler' = IF api.fn = "stop_scheduler" THEN NoObject ELSE scheduler
    /\ api' = NoApiCall
    /\ UNCHANGED <<sharedFiles, schedVars, now, pc, loc, histVars, ops, ticks>>
    /\ UNCHANGED <<nobj, is_running, thread, loop, self_of, cur_obj, jobs,
                   todo, calls, stop_called, failed_checks>>

\* run_scheduler line 89: the thread registers its object's
\* check_and_retrain with the schedule module, due one interval from now.
LoopRegister(t) ==
    /\ loop[t] = "register"
    /\ jobs' = Append(jobs, [obj |-> self_of[t],
                             next_run |-> now + CHECK_INTERVAL_HOURS])
    /\ loop' = [loop EXCEPT ![t] = "startup"]
    /\ UNCHANGED <<sharedFiles, schedVars, now, pc, loc, histVars, ops, ticks>>
    /\ UNCHANGED <<scheduler, nobj, is_running, thread, self_of, cur_obj,
                   todo, api, calls, stop_called, failed_checks>>

\* Thread t enters check_and_retrain of object o (lines 46-57).
begin_check(t, o) ==
    /\ pc[t] = "idle"
    /\ ops < MaxChecks
    /\ ops' = ops + 1
    /\ cur_obj' = [cur_obj EXCEPT ![t] = o]
    /\ last_check' = [last_check EXCEPT ![o] = now]
    /\ loc' = [loc EXCEPT ![t] = [InitLoc EXCEPT !.op = "tick"]]
    /\ pc' = [pc EXCEPT ![t] = "rd_should"]

\* run_scheduler line 92: the immediate check.
StartupCheck(t) ==
    /\ loop[t] = "startup"
    /\ begin_check(t, self_of[t])
    /\ loop' = [loop EXCEPT ![t] = "startup_run"]
    /\ UNCHANGED <<sharedFiles, last_retrain, now, histVars, ticks>>
    /\ UNCHANGED <<scheduler, nobj, is_running, thread, self_of, jobs, todo,
                   api, calls, stop_called, failed_checks>>

\* Where the thread goes on when check_and_retrain, entered at position p,
\* returns: a failed result is only printed (line 74) and an exception is
\* caught (lines 78-81), so the thread goes on as after a success.
loop_after_check_raises(p, failed) ==
    IF failed THEN "dead"
    ELSE IF p = "startup_run" THEN "startup_done" ELSE "job_done"
loop_after_check(p, failed) ==
    IF p = "startup_run" THEN "startup_done" ELSE "job_done"

\* check_and_retrain returns to run_scheduler or to run_pending (lines
\* 66-81): last_retrain is recorded after a successful retrain.
CheckReturn(t) ==
    /\ loop[t] \in {"startup_run", "job_run"}
    /\ pc[t] \in {"ret", "done"}
    /\ last_retrain' = IF pc[t] = "ret"
                       THEN record_last_retrain(last_retrain, cur_obj[t],
                                                loc[t].result, now)
                       ELSE last_retrain
    /\ failed_checks' = IF pc[t] = "ret" /\ ~loc[t].result.success
                        THEN failed_checks \cup {cur_obj[t]}
                        ELSE failed_checks
    /\ loc' = [loc EXCEPT ![t] = InitLoc]
    /\ pc' = [pc EXCEPT ![t] = "idle"]
    /\ loop' = [loop EXCEPT ![t] =
                    loop_after_check(loop[t],
                                     pc[t] = "ret" /\ ~loc[t].result.success)]
    /\ UNCHANGED <<sharedFiles, last_check, now, histVars, ops, ticks>>
    /\ UNCHANGED <<scheduler, nobj, is_running, thread, self_of, cur_obj,
                   jobs, todo, api, calls, stop_called>>

\* run_scheduler line 95: self.is_running = True.
SetRunning(t) ==
    /\ loop[t] = "startup_done"
    /\ is_running' = [is_running EXCEPT ![self_of[t]] = TRUE]
    /\ loop' = [loop EXCEPT ![t] = "while"]
    /\ UNCHANGED <<sharedFiles, schedVars, now, pc, loc, histVars, ops, ticks>>
    /\ UNCHANGED <<scheduler, nobj, thread, self_of, cur_obj, jobs, todo,
                   api, calls, stop_called, failed_checks>>

\* schedule.run_pending()'s runnable jobs: those whose next run is due, in
\* the order of their next run.
RunnableJobs_all == [i \in 1..Len(jobs) |-> i]
RunnableJobs ==
    SortSeq(SelectSeq([i \in 1..Len(jobs) |-> i],
                      LAMBDA i : jobs[i].next_run <= now),
            LAMBDA i, j : jobs[i].next_run < jobs[j].next_run)

\* run_scheduler lines 96-98: after the sleep (or on entry) the while test
\* reads is_running; when it is False the thread ends, else run_pending
\* collects the runnable jobs.
LoopWake(t) ==
    /\ loop[t] = "while"
    /\ IF is_running[self_of[t]]
       THEN /\ todo' = [todo EXCEPT ![t] = RunnableJobs]
            /\ loop' = [loop EXCEPT ![t] = IF RunnableJobs = <<>>
                                           THEN "while" ELSE "jobs"]
       ELSE /\ loop' = [loop EXCEPT ![t] = "dead"]
            /\ UNCHANGED todo
    /\ UNCHANGED <<sharedFiles, schedVars, now, pc, loc, histVars, ops, ticks>>
    /\ UNCHANGED <<scheduler, nobj, is_running, thread, self_of, cur_obj,
                   jobs, api, calls, stop_called, failed_checks>>

\* run_pending runs its next runnable job: the check_and_retrain of the
\* object that registered it.
JobStart(t) ==
    /\ loop[t] = "jobs"
    /\ begin_check(t, jobs[Head(todo[t])].obj)
    /\ loop' = [loop EXCEPT ![t] = "job_run"]
    /\ UNCHANGED <<sharedFiles, last_retrain, now, histVars, ticks>>
    /\ UNCHANGED <<scheduler, nobj, is_running, thread, self_of, jobs, todo,
                   api, calls, stop_called, failed_checks>>

\* The job has returned: the schedule module sets its next run one interval
\* from now; run_pending goes on to its next runnable job or returns.
JobDone(t) ==
    /\ loop[t] = "job_done"
    /\ jobs' = [jobs EXCEPT ![Head(todo[t])].next_run = now + CHECK_INTERVAL_HOURS]
    /\ todo' = [todo EXCEPT ![t] = Tail(todo[t])]
    /\ loop' = [loop EXCEPT ![t] = IF Tail(todo[t]) = <<>>
                                   THEN "while" ELSE "jobs"]
    /\ UNCHANGED <<sharedFiles, schedVars, now, pc, loc, histVars, ops, ticks>>
    /\ UNCHANGED <<scheduler, nobj, is_running, thread, self_of, cur_obj,
                   api, calls, stop_called, failed_checks>>

\* A process in which nothing has started the scheduler yet; the buffer and
\* the ledger are those of earlier runs.  Only the scheduler's threads run.
LifeBufferSizes == {0, RETRAIN_THRESHOLD}

LifeInit ==
    /\ \E n \in LifeBufferSizes :
          buffer_file = [exists |-> TRUE, torn |-> FALSE, rows |-> BufferOfSize(n)]
    /\ lock = NoThread
    /\ versions \in {<<>>, <<NewVersion(1, 0, 1, 0)>>}
    /\ version_file = versions
    /\ training_data_file =
          [exists |-> TRUE, rows |-> <<[key |-> 1, incident_occurred |-> 0]>>]
    /\ model_file = [exists |-> FALSE, rows |-> 0]
    /\ now = 0
    /\ last_check = [o \in Objects |-> -1]
    /\ last_retrain = [o \in Objects |-> -1]
    /\ pc = [t \in Threads |-> "idle"]
    /\ loc = [t \in Threads |-> InitLoc]
    /\ accepted = Len(buffer_file.rows)
    /\ since_clear = accepted
    /\ accepted_keys = KeysOf(buffer_file.rows)
    /\ model_data = load_model(NoModel, model_file)
    /\ restarts = 0
    /\ ops = 0
    /\ ticks = 0
    /\ SchedulerNotStarted

LifeNext ==
    \/ StartScheduler
    \/ StopSchedulerBegin
    \/ StopSchedulerNone
    \/ StopJoin
    \/ \E o \in Objects : StopBegin(o)
    \/ \E t \in LoopThreads :
          \/ LoopRegister(t)
          \/ StartupCheck(t)
          \/ SetRunning(t)
          \/ LoopWake(t)
          \/ JobStart(t)
          \/ JobDone(t)
          \/ CheckReturn(t)
          \/ EvalShouldRetrain(t)
          \/ MergeRead(t)
          \/ MergeWrite(t)
          \/ TrainOk(t)
          \/ TrainRaise(t)
          \/ SaveModel(t)
          \/ AddVersionBuild(t)
          \/ AddVersionAppend(t)
          \/ SaveVersions(t)
          \/ SaveVersionsRaise(t)
          \/ ClearBuffer(t)
    \/ Tick

LifeSpec == LifeInit /\ [][LifeNext]_vars

\* The caller of stop() keeps running: a join that can return does return.
LifeFairSpec == LifeSpec /\ WF_vars(StopJoin)

\* =================================================================== claims
IsSuffix(a, b) ==
    /\ Len(a) <= Len(b)
    /\ SubSeq(b, Len(b) - Len(a) + 1, Len(b)) = a

Returned(t) == pc[t] = "ret"
Succeeded(t) == Returned(t) /\ loc[t].result.success

\* C1: at most one retrain executes at a time: no two threads are inside
\* retrain_model (between its start and its return) in the same state.
C1_AtMostOneRetrain ==
    Cardinality({t \in Threads : InRetrain(t)}) <= 1

\* C2: after retrain_model has returned success, and with no add_sample
\* completed since the retrain read the buffer, get_buffer_size() is 0.
C2_BufferEmptyAfterRetrain ==
    \A t \in Threads :
        (Succeeded(t) /\ loc[t].late_rows = <<>> /\ loc[t].post = 0)
            => get_buffer_size(buffer_file) = 0

\* C3: no lost writes: whenever no add_sample is in progress, the buffer
\* holds one row for every add_sample that has returned True (on top of the
\* rows it started with), whatever the interleaving.
C3_NoLostWrites ==
    (\A t \in Threads : pc[t] \notin {"add_open", "add_write"})
        => get_buffer_size(buffer_file) = accepted

\* C3 witness: two add_sample calls were at the lock at the same time and
\* both have returned True.
C3_Witness ==
    /\ \A t \in Callers : loc[t].sample_added
    /\ \E t \in Callers : loc[t].contended
    /\ \A t \in Threads : pc[t] \notin {"add_sample", "add_open", "add_write"}
    /\ get_buffer_size(buffer_file) = accepted

\* C4: the ledger's entries carry the version numbers 1, 2, ..., n in
\* append order, and no step modifies or removes an existing entry.
C4_LedgerContiguousAppendOnly ==
    /\ [](\A i \in 1..Len(versions) : versions[i].version = i)
    /\ [][/\ Len(versions') >= Len(versions)
          /\ SubSeq(versions', 1, Len(versions)) = versions]_vars

\* C5: a call in which the Training Routine raised has returned
\* success=false and has executed neither add_version nor clear_buffer.
C5_TrainingFailureLeavesState ==
    \A t \in Threads :
        loc[t].result.error = "train"
            => /\ Returned(t)
               /\ ~loc[t].result.success
               /\ ~loc[t].did_append
               /\ ~loc[t].did_clear

\* C5 witness: the Training Routine raised in a retrain that had merged a
\* non-empty buffer.
C5_Witness ==
    \E t \in Threads :
        /\ Returned(t)
        /\ loc[t].result.error = "train"
        /\ loc[t].new_samples_count > 0

\* Thread t's call read a buffer that held samples, fewer than the threshold.
ReadBelowThreshold(t) ==
    /\ loc[t].new_samples_count > 0
    /\ loc[t].new_samples_count < RETRAIN_THRESHOLD

\* C6: of two trigger_retraining calls that run at the same time on a
\* buffer holding samples below the threshold (neither hitting an error),
\* exactly one appends a ledger entry, and if both report success they
\* report the same version.
C6_OneOfTwoManualRetrains ==
    \A t1, t2 \in Callers :
        (/\ t1 # t2
         /\ Returned(t1) /\ Returned(t2)
         /\ loc[t1].op = "manual" /\ loc[t2].op = "manual"
         /\ t2 \in loc[t1].overlapped
         /\ ReadBelowThreshold(t1) /\ ReadBelowThreshold(t2)
         /\ loc[t1].result.error = "none" /\ loc[t2].result.error = "none")
            => /\ loc[t1].did_append # loc[t2].did_append
               /\ (loc[t1].result.success /\ loc[t2].result.success
                      => loc[t1].result.version = loc[t2].result.version)

\* C7: right after a successful retrain has returned, the rows whose
\* add_sample completed between the retrain's read of the buffer and its
\* clear_buffer are still in the buffer (they are its last rows).
C7_LateSamplesPreserved ==
    \A t \in Threads :
        (Succeeded(t) /\ loc[t].post = 0 /\ ~buffer_file.torn)
            => IsSuffix(loc[t].late_rows, buffer_file.rows)

\* C7 witness: a successful retrain has returned and a sample was appended
\* between its read of the buffer and its clear_buffer.
C7_Witness ==
    \E t \in Threads :
        /\ Succeeded(t)
        /\ loc[t].did_clear
        /\ loc[t].late_rows # <<>>
        /\ loc[t].post = 0
        /\ ~buffer_file.torn

\* C8: no partial commit: a returned retrain either reports success and
\* has saved the artifact, appended a ledger entry and cleared the buffer
\* (empty when nothing was appended since its read), or reports failure and
\* has neither appended a ledger entry nor cleared the buffer.
C8_NoPartialCommit ==
    \A t \in Threads :
        Returned(t) =>
            \/ /\ loc[t].result.success
               /\ loc[t].did_save /\ loc[t].did_append /\ loc[t].did_clear
               /\ (loc[t].late_rows = <<>> /\ loc[t].post = 0
                      => get_buffer_size(buffer_file) = 0)
            \/ /\ ~loc[t].result.success
               /\ ~loc[t].did_append /\ ~loc[t].did_clear

\* C9: when retrain_model returns success, get_latest_version().version is
\* the latest version number before the call plus 1 (1 for an empty
\* ledger), and so is the returned 'version'.
C9_VersionIsPreviousPlusOne ==
    [][\A t \in Threads :
          (pc[t] # "ret" /\ pc'[t] = "ret" /\ loc'[t].result.success)
              => /\ LatestVersionNumber(versions') = loc[t].latest_at_call + 1
                 /\ loc'[t].result.version = loc[t].latest_at_call + 1]_vars

\* C10: should_retrain decides the size trigger exactly when the buffer
\* size it read is >= RETRAIN_THRESHOLD, whatever the ledger and the clock.
C10_SizeTriggerIff ==
    \A t \in Threads :
        pc[t] \in RetrainPCs \cup {"ret", "done"} /\ loc[t].op \in {"ingest", "tick"}
            => (loc[t].decision = "SIZE_THRESHOLD"
                    <=> loc[t].buffer_size >= RETRAIN_THRESHOLD)

\* C10 witness: the size trigger was decided although the latest version
\* is younger than the retrain interval.
C10_Witness ==
    \E t \in Threads :
        /\ loc[t].decision = "SIZE_THRESHOLD"
        /\ pc[t] = "rt_merge"
        /\ HasLatestVersion(versions)
        /\ now - get_latest_version(versions).timestamp < AUTO_RETRAIN_INTERVAL_HOURS

\* C11: should_retrain decides the time trigger exactly when the buffer
\* size it read is below RETRAIN_THRESHOLD and a latest version exists whose
\* timestamp is at least AUTO_RETRAIN_INTERVAL_HOURS old; with the size below
\* the threshold and no such version it decides NONE and no retrain starts.
C11_TimeTriggerIff ==
    [][\A t \in Threads :
          (pc[t] = "rd_should" /\ pc'[t] # "rd_should")
              => LET size == get_buffer_size(buffer_file)
                     stale == /\ HasLatestVersion(versions)
                              /\ now - get_latest_version(versions).timestamp
                                     >= AUTO_RETRAIN_INTERVAL_HOURS
                 IN /\ loc'[t].decision = "TIME_ELAPSED"
                           <=> (size < RETRAIN_THRESHOLD /\ stale)
                    /\ (size < RETRAIN_THRESHOLD /\ ~stale)
                           => (loc'[t].decision = "NONE" /\ pc'[t] = "done")]_vars

\* C11 witness: the time trigger was decided on a buffer below the
\* threshold, when the latest version was exactly one interval old.
C11_Witness ==
    \E t \in Threads :
        /\ pc[t] = "rt_merge"
        /\ loc[t].decision = "TIME_ELAPSED"
        /\ loc[t].buffer_size < RETRAIN_THRESHOLD
        /\ HasLatestVersion(versions)
        /\ now - get_latest_version(versions).timestamp = AUTO_RETRAIN_INTERVAL_HOURS

LastWithKey(rows, k) ==
    rows[CHOOSE i \in 1..Len(rows) :
            /\ rows[i].key = k
            /\ \A j \in (i + 1)..Len(rows) : rows[j].key # k]
HistoricalRows == IF training_data_file.exists THEN training_data_file.rows ELSE <<>>

\* C13: when the historical dataset and the buffer both hold a sample with
\* composite key K, the dataset merge_training_data produces holds exactly
\* one record with key K, and it is the buffered one.
C13_MergeKeepsBuffered ==
    [][\A t \in Threads :
          (pc[t] = "rt_merge" /\ pc'[t] = "rt_write")
              => \A k \in KeysOf(HistoricalRows) \cap KeysOf(buffer_file.rows) :
                    /\ Cardinality({i \in 1..Len(loc'[t].df_combined) :
                                       loc'[t].df_combined[i].key = k}) = 1
                    /\ LastWithKey(loc'[t].df_combined, k)
                           = LastWithKey(buffer_file.rows, k)]_vars

\* C13 witness: a merge has combined a historical record and a buffered
\* sample that share a key and differ in their label.
C13_Witness ==
    \E t \in Threads :
        /\ pc[t] = "rt_write"
        /\ \E i \in 1..Len(HistoricalRows), j \in 1..Len(loc[t].df_new) :
              /\ HistoricalRows[i].key = loc[t].df_new[j].key
              /\ HistoricalRows[i].incident_occurred
                     # loc[t].df_new[j].incident_occurred

\* C12: on a fresh service (empty buffer, empty ledger) the first
\* RETRAIN_THRESHOLD - 1 sequential reports return will_retrain_soon=false
\* and start no retrain; the RETRAIN_THRESHOLD-th returns
\* will_retrain_soon=true with a retrain_result, which barring a fault in
\* the retrain is a success, and the ledger then holds exactly one version,
\* whose new_samples_added is RETRAIN_THRESHOLD.
C12_ThresholdScenario ==
    LET c == SeqCaller
        replied == pc[c] \in {"done", "ret"} /\ loc[c].sample_added
    IN /\ ops < RETRAIN_THRESHOLD
           => /\ pc[c] \notin RetrainPCs \cup {"ret"}
              /\ versions = <<>>
              /\ replied => loc[c].decision = "NONE"
       /\ (ops = RETRAIN_THRESHOLD /\ accepted = RETRAIN_THRESHOLD /\ replied)
           => /\ pc[c] = "ret"
              /\ loc[c].decision # "NONE"
              /\ loc[c].result.error = "none"
                    => /\ loc[c].result.success
                       /\ Len(versions) = 1
                       /\ versions[1].new_samples_added = RETRAIN_THRESHOLD

\* C12 witness: the RETRAIN_THRESHOLD-th report has returned with a
\* successful retrain_result, and the buffered samples repeat a key.
C12_Witness ==
    /\ ops = RETRAIN_THRESHOLD
    /\ accepted = RETRAIN_THRESHOLD
    /\ pc[SeqCaller] = "ret"
    /\ loc[SeqCaller].result.success
    /\ Len(versions) = 1
    /\ Len(loc[SeqCaller].df_combined) < RETRAIN_THRESHOLD

\* A step in which background thread t begins, or returns from,
\* check_and_retrain.
CheckBegins(t) == pc[t] = "idle" /\ pc'[t] = "rd_should"
CheckReturns(t) == pc[t] \in {"ret", "done"} /\ pc'[t] = "idle"

\* C17: every scheduler tick sets last_check to the tick time and nothing
\* else changes it; last_retrain is set (to the time of the return) exactly
\* by a tick whose retrain returned success=true, and is left unchanged by
\* every other step: a tick that did not retrain, one whose retrain failed.
C17_TickTimestamps ==
    [][/\ \A t \in LoopThreads :
             CheckBegins(t) => last_check'[cur_obj'[t]] = now
       /\ \A o \in Objects :
             (~\E t \in LoopThreads : CheckBegins(t) /\ cur_obj'[t] = o)
                 => last_check'[o] = last_check[o]
       /\ \A o \in Objects :
             last_retrain'[o] =
                 IF \E t \in LoopThreads :
                       /\ CheckReturns(t) /\ cur_obj[t] = o
                       /\ pc[t] = "ret" /\ loc[t].result.success
                 THEN now ELSE last_retrain[o]]_vars

\* C17 witness: a tick whose retrain succeeded has returned: last_check
\* holds the tick time and last_retrain the time of the return.
C17_Witness ==
    /\ pc[SchedulerThread] = "idle"
    /\ last_check[1] >= 0
    /\ last_retrain[1] >= last_check[1]
    /\ HasLatestVersion(versions)
    /\ model_file.exists

\* An add_lost_item_report call of thread t has returned.
IngestReturned(t) == loc[t].op = "ingest" /\ pc[t] \in {"ret", "done"}

\* C18: when the retrain an ingest triggered fails, add_lost_item_report
\* still returns success=true, with the failed retrain_result inline, and
\* the ingested sample is in the buffer (read while no writer has the file
\* open).
C18_RetrainFailureKeepsIngest ==
    \A t \in Callers :
        LET r == add_lost_item_report_response(loc[t], pc[t])
        IN (IngestReturned(t) /\ r.has_retrain_result /\ ~r.retrain_result.success)
              => /\ r.success
                 /\ r.retrain_result.error # "none"
                 /\ ~buffer_file.torn
                       => \E i \in 1..Len(buffer_file.rows) :
                             buffer_file.rows[i] = loc[t].sample

\* C18 witness: an ingest brought the buffer to the threshold, the retrain
\* it triggered failed in the Training Routine, and the call has returned.
C18_Witness ==
    \E t \in Callers :
        /\ IngestReturned(t)
        /\ loc[t].decision = "SIZE_THRESHOLD"
        /\ loc[t].result.error = "train"
        /\ add_lost_item_report_response(loc[t], pc[t]).success
        /\ ~buffer_file.torn
        /\ buffer_file.rows[Len(buffer_file.rows)] = loc[t].sample

\* C20: a call in which _save_versions raised inside add_version, after
\* training succeeded and the artifact was saved, has returned success=false
\* with an error.
C20_LedgerWriteFailureReported ==
    \A t \in Threads :
        (Returned(t) /\ loc[t].did_append /\ ~loc[t].did_clear)
            => /\ ~loc[t].result.success
               /\ loc[t].result.error = "ledger"
               /\ loc[t].did_save
               /\ model_file.exists

\* C20 witness: a retrain saved the artifact, appended its version in
\* memory, failed to write the ledger file and has returned; the file lacks
\* the version.
C20_Witness ==
    \E t \in Threads :
        /\ Returned(t)
        /\ loc[t].result.error = "ledger"
        /\ loc[t].did_save
        /\ loc[t].did_append
        /\ Len(version_file) < Len(versions)

\* C14: at most one background scheduler thread is alive at any time,
\* across any sequence of start and stop calls.
C14_AtMostOneLoopAlive ==
    Cardinality({t \in LoopThreads : Alive(t)}) <= 1

\* C15: once stop() has set is_running to False, is_running stays False
\* until a start call starts a new thread for the object.
C15_StopIsEffective ==
    [][\A o \in Objects :
          (o \in stop_called /\ ~is_running[o] /\ o \in stop_called')
              => ~is_running'[o]]_vars

\* C16: every stop() call returns, whatever the background thread is doing;
\* and a stop() on an object that was stopped before or never started
\* leaves is_running False and changes nothing else of the scheduler (no
\* thread, no job, not the global object), as does stop_scheduler() when
\* there is no global object.
C16_StopReturns ==
    /\ (api.pc = "join") ~> (api.pc = "idle")
    /\ [][(api.pc = "idle" /\ api'.pc = "join"
             /\ (api'.obj \in stop_called \/ thread[api'.obj] = NoThread))
          => /\ ~is_running'[api'.obj]
             /\ UNCHANGED <<thread, loop, self_of, jobs, scheduler>>]_vars
    /\ [][(calls' # calls /\ api' = api
             /\ scheduler = NoObject /\ scheduler' = NoObject)
          => UNCHANGED <<is_running, thread, loop, self_of, jobs>>]_vars

\* C16 witness: stop() has returned while the object's thread is still
\* alive, inside the retrain of its start-up check.
C16_Witness ==
    /\ api.pc = "idle"
    /\ \E o \in stop_called :
          /\ ThreadIsAlive(o)
          /\ loop[thread[o]] = "startup_run"
          /\ InRetrain(thread[o])

\* C19: a failed retrain does not end the scheduler's thread: a thread ends
\* only at its while test, when is_running is False; and every check whose
\* should_retrain is true enters retrain_model, also after earlier checks of
\* the object ended in a failed retrain.
C19_FailureKeepsLoopRunning ==
    [][\A t \in LoopThreads :
          /\ (loop[t] # "dead" /\ loop'[t] = "dead")
                => (loop[t] = "while" /\ ~is_running[self_of[t]])
          /\ (pc[t] = "rd_should" /\ pc'[t] # "rd_should")
                => (pc'[t] = "rt_merge"
                       <=> should_retrain(get_buffer_size(buffer_file),
                                          versions, now) # "NONE")]_vars

\* C19 witness: the start-up check's retrain failed, the thread went on
\* into its loop, and its next check has entered retrain_model again.
C19_Witness ==
    \E t \in LoopThreads :
        /\ loop[t] = "job_run"
        /\ pc[t] = "rt_merge"
        /\ cur_obj[t] = self_of[t]
        /\ self_of[t] \in failed_checks
        /\ is_running[self_of[t]]

\* C21: get_buffer_size() is never negative, and whenever a thread is about
\* to call it (unlocked, in should_retrain) it returns at least the number
\* of add_sample calls that have completed since the last clear_buffer,
\* also while another add_sample is rewriting the buffer file.
C21_SizeCoversCompletedAppends ==
    /\ get_buffer_size(buffer_file) >= 0
    /\ \A t \in Threads :
          pc[t] = "rd_should" => get_buffer_size(buffer_file) >= since_clear

\* C22: absent persisted state is treated as empty.  A missing buffer file
\* counts 0 rows, before and after the constructor has created it; a
\* missing version file loads as an empty ledger, which has no latest
\* version; on an empty buffer and an empty ledger should_retrain is false
\* at any time; and a retrain_model that finds no buffered and no
\* historical rows returns success=false 'No training data available',
\* having saved no artifact and appended no ledger entry.
C22_AbsentStateIsEmpty ==
    /\ [](/\ get_buffer_size(AbsentBuffer) = 0
          /\ get_buffer_data(AbsentBuffer) = <<>>
          /\ ~get_buffer_data_raises(AbsentBuffer)
          /\ ~HasLatestVersion(_load_versions(AbsentLedger))
          /\ (/\ buffer_file = _initialize_buffer(AbsentBuffer)
              /\ versions = _load_versions(AbsentLedger))
                => /\ get_buffer_size(buffer_file) = 0
                   /\ should_retrain(get_buffer_size(buffer_file),
                                     versions, now) = "NONE")
    /\ [][\A t \in Threads :
             (/\ pc[t] = "rt_merge" /\ pc'[t] # "rt_merge"
              /\ get_buffer_data(buffer_file) = <<>> /\ ~buffer_file.torn
              /\ HistoricalRows = <<>>)
                 => /\ pc'[t] = "ret"
                    /\ ~loc'[t].result.success
                    /\ loc'[t].result.error = "no_data"
                    /\ ~loc'[t].did_save /\ ~loc'[t].did_append
                    /\ versions' = versions
                    /\ version_file' = version_file]_vars

\* C22 witness: the process started with no buffer file, no version file
\* and no historical dataset; time has passed, and a retrain_model call has
\* returned 'No training data available'.
C22_Witness ==
    /\ buffer_file = _initialize_buffer(AbsentBuffer)
    /\ versions = _load_versions(AbsentLedger)
    /\ training_data_file = AbsentDataset
    /\ now >= AUTO_RETRAIN_INTERVAL_HOURS
    /\ \E t \in Threads : Returned(t) /\ loc[t].result.error = "no_data"

\* C23: add_lost_item_report evaluates should_retrain once, after its
\* sample was appended; it calls retrain_model (synchronously, in the same
\* thread) exactly when that evaluation is true; and the value it returns
\* has will_retrain_soon equal to that evaluation and holds a
\* retrain_result exactly when will_retrain_soon is true.
C23_IngestEvaluatesOnce ==
    /\ [](\A t \in Callers :
             IngestReturned(t)
                 => LET r == add_lost_item_report_response(loc[t], pc[t])
                    IN /\ r.will_retrain_soon <=> loc[t].decision # "NONE"
                       /\ r.has_retrain_result <=> r.will_retrain_soon)
    /\ [][\A t \in Callers :
             /\ (loc[t].op = "ingest" /\ pc[t] = "rd_should"
                                      /\ pc'[t] # "rd_should")
                   => /\ loc[t].sample_added
                      /\ loc'[t].decision =
                            should_retrain(get_buffer_size(buffer_file),
                                           versions, now)
                      /\ pc'[t] = "rt_merge" <=> loc'[t].decision # "NONE"
             /\ (loc[t].op = "ingest" /\ loc'[t].op = "ingest"
                                      /\ pc[t] # "rd_should")
                   => loc'[t].decision = loc[t].decision
             /\ (loc[t].op = "ingest" /\ pc[t] # "rt_merge"
                                      /\ pc'[t] = "rt_merge")
                   => pc[t] = "rd_should"]_vars

\* C23 witness: an ingest whose should_retrain was true by the time
\* trigger, on a buffer below the threshold, has returned with its
\* retrain_result.
C23_Witness ==
    \E t \in Callers :
        /\ IngestReturned(t)
        /\ loc[t].sample_added
        /\ loc[t].decision = "TIME_ELAPSED"
        /\ add_lost_item_report_response(loc[t], pc[t]).has_retrain_result
        /\ add_lost_item_report_response(loc[t], pc[t]).will_retrain_soon

\* C24: when add_sample failed, the result of add_lost_item_report and the
\* report-lost-item response built from it both indicate failure: neither
\* reports success for a sample that was not buffered.
C24_BufferWriteFailureSurfaced ==
    \A t \in Callers :
        (IngestReturned(t) /\ ~loc[t].sample_added)
            => LET r == add_lost_item_report_response(loc[t], pc[t])
               IN /\ ~r.success
                  /\ ~report_lost_item_response(r).success

\* The artifact thread t's retrain has produced.
ProducedArtifact(t) == [exists |-> TRUE, rows |-> loc[t].total_samples]

\* C25: when an operation whose retrain succeeded ends (an ingest, a
\* scheduler check or a manual trigger, with no other retrain running at
\* the same time), the artifact the prediction path uses is the one that
\* retrain produced; and the artifact file already holds it when the
\* ledger entry is appended.
C25_ActiveArtifactIsNew ==
    [][\A t \in Threads :
          /\ (Succeeded(t) /\ pc'[t] = "idle" /\ loc[t].overlapped = {})
                => model_data' = ProducedArtifact(t)
          /\ (pc[t] = "rt_append" /\ pc'[t] = "rt_savever"
                                  /\ loc[t].overlapped = {})
                => model_file = ProducedArtifact(t)]_vars

\* C26: the new_samples_added a retrain records in its ledger entry, and
\* returns when it succeeds, is the number of rows of the buffer snapshot
\* that retrain read, duplicates included, not the number of buffered rows
\* that survive the merge.
C26_NewSamplesCountsSnapshot ==
    /\ [](\A t \in Threads :
             Succeeded(t) => loc[t].result.new_samples_added = Len(loc[t].df_new))
    /\ [][\A t \in Threads :
             /\ (pc[t] = "rt_merge" /\ pc'[t] \in {"rt_write", "rt_train"})
                   => /\ loc'[t].df_new = get_buffer_data(buffer_file)
                      /\ loc'[t].new_samples_count = Len(buffer_file.rows)
             /\ (pc[t] = "rt_append" /\ pc'[t] = "rt_savever")
                   => /\ Len(versions') = Len(versions) + 1
                      /\ versions'[Len(versions')].new_samples_added
                            = Len(loc[t].df_new)]_vars

\* C26 witness: a successful retrain has returned whose snapshot held two
\* rows with the same key: fewer buffered rows survived the merge than the
\* call reports as added.
C26_Witness ==
    \E t \in Threads :
        /\ Succeeded(t)
        /\ Len(drop_duplicates(loc[t].df_new)) < Len(loc[t].df_new)
        /\ loc[t].result.new_samples_added = Len(loc[t].df_new)
        /\ \E i \in 1..Len(versions) :
              /\ versions[i].version = loc[t].result.version
              /\ versions[i].new_samples_added = Len(loc[t].df_new)

\* C27: append is crash-consistent: after a crash at any point, also in the
\* middle of add_sample's rewrite of the buffer file, and the restart, the
\* buffer holds (whenever no add_sample is rewriting it) at least the
\* samples whose add_sample had completed since the last clear_buffer.
C27_AppendCrashConsistent ==
    (restarts > 0 /\ \A t \in Threads : pc[t] \notin {"add_open", "add_write"})
        => get_buffer_size(buffer_file) >= since_clear

\* C28: the scheduler owns no data: every step of a scheduler check that
\* is not a step inside retrain_model (the start of the check, the
\* get_buffer_status / should_retrain evaluation, the return) leaves the
\* buffer, the ledger and the historical dataset unchanged; so does, from
\* start to end, a check whose should_retrain is false.
C28_SchedulerOwnsNoData ==
    [][\A t \in LoopThreads :
          (/\ loc[t].op = "tick" \/ loc'[t].op = "tick"
           /\ pc'[t] # pc[t]
           /\ pc[t] \notin RetrainPCs)
              => UNCHANGED <<buffer_file, versions, version_file,
                             training_data_file>>]_vars

\* C28 witness: a check has evaluated should_retrain to false on a buffer
\* that holds samples and a ledger that holds a version, and is about to
\* return.
C28_Witness ==
    /\ pc[SchedulerThread] = "done"
    /\ loc[SchedulerThread].op = "tick"
    /\ loc[SchedulerThread].decision = "NONE"
    /\ get_buffer_size(buffer_file) > 0
    /\ HasLatestVersion(versions)

\* The hours since the latest recorded version, or since the service
\* started when none was recorded.
HoursSinceTraining ==
    now - (IF HasLatestVersion(versions)
           THEN get_latest_version(versions).timestamp ELSE 0)

\* C29: low report volume does not starve retraining: with the scheduler
\* checking again and again, whenever the buffer holds samples, fewer than
\* RETRAIN_THRESHOLD, and AUTO_RETRAIN_INTERVAL_HOURS have elapsed, a
\* retrain is eventually started, also when the ledger is still empty.
C29_NoStarvation ==
    (/\ get_buffer_size(buffer_file) > 0
     /\ get_buffer_size(buffer_file) < RETRAIN_THRESHOLD
     /\ HoursSinceTraining >= AUTO_RETRAIN_INTERVAL_HOURS)
        ~> (\E t \in Threads : InRetrain(t))

NoDuplicateKeys(rows) ==
    \A i, j \in 1..Len(rows) : i # j => rows[i].key # rows[j].key

\* C30: the dataset every retrain hands to the Training Routine holds at
\* most one record per composite key, also when the buffer was empty at
\* the merge and the historical dataset repeats a key.
C30_TrainingSetDeduplicated ==
    \A t \in Threads :
        (pc[t] = "rt_train" /\ loc[t].overlapped = {})
            => /\ NoDuplicateKeys(loc[t].df_combined)
               /\ NoDuplicateKeys(HistoricalRows)

\* C31: the merged dataset is persisted before the Training Routine runs:
\* when the training step of a retrain that merged a non-empty buffer
\* fails, the persisted historical dataset holds the key of every sample of
\* the snapshot, and so does the buffer (read while no writer has it open).
C31_MergePersistedBeforeTraining ==
    [][\A t \in Threads :
          (/\ pc[t] = "rt_train" /\ pc'[t] = "ret"
           /\ loc[t].new_samples_count > 0)
              => /\ ~loc'[t].result.success
                 /\ training_data_file'.exists
                 /\ KeysOf(loc[t].df_new) \subseteq KeysOf(training_data_file'.rows)
                 /\ ~buffer_file'.torn
                       => KeysOf(loc[t].df_new) \subseteq KeysOf(buffer_file'.rows)]_vars

\* C32: a started scheduler thread runs one check_and_retrain at once,
\* not waiting for the job it has registered to become due, so last_check
\* is set from the moment the start-up check has begun; after that (one
\* start, one registered job) a check begins only when the job is due, one
\* check interval after its registration or after its previous run ended,
\* and when it ends the job is due again one interval later.
C32_ImmediateThenPeriodic ==
    /\ [](\A t \in LoopThreads :
             /\ loop[t] \in {"register", "startup"} => pc[t] = "idle"
             /\ loop[t] \notin {"unborn", "register", "startup"}
                   => last_check[self_of[t]] >= 0)
    /\ [][\A t \in LoopThreads :
             /\ (loop[t] = "register" /\ loop'[t] # "register")
                   => loop'[t] = "startup"
             /\ (loop[t] = "startup" /\ loop'[t] # "startup")
                   => /\ loop'[t] = "startup_run"
                      /\ pc'[t] = "rd_should"
                      /\ last_check'[self_of[t]] = now
             /\ (Len(jobs) = 1 /\ loop[t] = "jobs" /\ loop'[t] = "job_run")
                   => /\ jobs[Head(todo[t])].next_run <= now
                      /\ last_check'[jobs[Head(todo[t])].obj] = now
             /\ (Len(jobs) = 1 /\ loop[t] = "job_done" /\ loop'[t] # "job_done")
                   => jobs'[Head(todo[t])].next_run
                          = now + CHECK_INTERVAL_HOURS]_vars

\* C32 witness: after one start, the thread has run its start-up check
\* and, the interval having elapsed, has begun the first scheduled check.
C32_Witness ==
    \E t \in LoopThreads :
        /\ Len(jobs) = 1
        /\ nobj = 1
        /\ loop[t] = "job_run"
        /\ last_check[self_of[t]] >= CHECK_INTERVAL_HOURS

\* C33: a successful retrain resets both triggers: after retrain_model has
\* returned success, with no add_sample completed since it read the buffer
\* and less than AUTO_RETRAIN_INTERVAL_HOURS elapsed since the version it
\* recorded, should_retrain is false.
C33_SuccessResetsTriggers ==
    \A t \in Threads :
        (/\ Succeeded(t)
         /\ loc[t].late_rows = <<>> /\ loc[t].post = 0
         /\ now - loc[t].version_ts < AUTO_RETRAIN_INTERVAL_HOURS)
            => should_retrain(get_buffer_size(buffer_file), versions, now)
                   = "NONE"

RECURSIVE SumNewSamples(_)
SumNewSamples(vs) ==
    IF vs = <<>> THEN 0
    ELSE vs[1].new_samples_added + SumNewSamples(Tail(vs))

\* C34: each ingested sample is counted as a new sample by at most one
\* model version: the sum of new_samples_added over the ledger's entries
\* is at most the number of add_sample calls that have returned True.
C34_SamplesCountedOnce ==
    SumNewSamples(versions) <= accepted

C36_LedgerMatchesSuccesses ==
    \A t \in Threads :
        Returned(t) =>
            IF loc[t].result.success
            THEN Cardinality({i \in 1..Len(versions) :
                                 versions[i].version = loc[t].result.version}) = 1
            ELSE /\ ~loc[t].did_append
                 /\ \A i \in 1..Len(versions) :
                        versions[i].version # loc[t].version_no
                            \/ loc[t].version_no = 0

\* C37: after any sequence of start_scheduler / stop_scheduler calls at
\* most one periodic check job is registered with the schedule module, and
\* so one run of run_pending starts at most one check_and_retrain.  Stated
\* for the states in which at most one background thread was left alive,
\* so that a stop followed by a start is the case examined.
C37_AtMostOneJobRegistered ==
    Cardinality({t \in LoopThreads : Alive(t)}) <= 1
        => /\ Len(jobs) <= 1
           /\ \A t \in LoopThreads : Len(todo[t]) <= 1

\* C38: the scheduler status is consistent with the background task:
\* get_status().is_running is true whenever the object's background thread
\* is alive and executing run_scheduler (its start-up check and any retrain
\* it runs included) and no stop was requested, and false whenever the
\* object has no live background thread.
C38_StatusMatchesThread ==
    \A o \in 1..nobj :
        /\ (ThreadIsAlive(o) /\ o \notin stop_called)
               => get_status(o).is_running
        /\ ~ThreadIsAlive(o) => ~get_status(o).is_running

RowsOf(rows) == {rows[i] : i \in 1..Len(rows)}

\* The dataset h already holds the merge of the buffer rows b: for every
\* key of b, the last row of b with that key is a row of h.
HoldsMergeOf(h, b) ==
    \A i \in 1..Len(b) :
        (\A j \in (i + 1)..Len(b) : b[j].key # b[i].key) => b[i] \in RowsOf(h)

\* C39: merging is idempotent under retry: when merge_training_data merges
\* a buffer whose merge the persisted dataset already holds (an earlier
\* retrain persisted it and then failed, and the buffer is unchanged), the
\* dataset it persists has one record per key, is no longer than the
\* dataset it read and has the same keys; when the dataset it read had one
\* record per key, it has exactly the same records.
C39_MergeIdempotent ==
    [][\A t \in Threads :
          /\ (/\ pc[t] = "rt_merge" /\ pc'[t] = "rt_write"
              /\ HoldsMergeOf(HistoricalRows, get_buffer_data(buffer_file)))
                 => /\ NoDuplicateKeys(loc'[t].df_combined)
                    /\ Len(loc'[t].df_combined) <= Len(HistoricalRows)
                    /\ KeysOf(loc'[t].df_combined) = KeysOf(HistoricalRows)
                    /\ NoDuplicateKeys(HistoricalRows)
                          => RowsOf(loc'[t].df_combined) = RowsOf(HistoricalRows)
          /\ (pc[t] = "rt_write" /\ pc'[t] = "rt_train")
                 => training_data_file' =
                        [exists |-> TRUE, rows |-> loc[t].df_combined]]_vars

\* C39 witness: a check's retrain has failed after its merge was persisted,
\* and a later retrain has merged the same buffer again: what it is about
\* to persist has the records the dataset already holds.
C39_Witness ==
    \E t \in Threads :
        /\ pc[t] = "rt_write"
        /\ failed_checks # {}
        /\ versions = <<>>
        /\ loc[t].df_new = get_buffer_data(buffer_file)
        /\ Len(loc[t].df_new) = RETRAIN_THRESHOLD
        /\ Len(HistoricalRows) = RETRAIN_THRESHOLD
        /\ HoldsMergeOf(HistoricalRows, loc[t].df_new)
        /\ RowsOf(loc[t].df_combined) = RowsOf(HistoricalRows)

\* C40: when add_sample fails inside add_lost_item_report, the call returns
\* success=false without evaluating should_retrain or invoking
\* retrain_model, and the ledger, the historical dataset and the buffer are
\* as they were when the call began (the buffer holds the rows add_sample
\* read under the lock, if it had read the file).
C40_FailedIngestChangesNothing ==
    [][\A t \in Threads :
          (pc[t] \in {"add_sample", "add_open", "add_write"} /\ pc'[t] = "done")
              => /\ ~add_lost_item_report_response(loc'[t], pc'[t]).success
                 /\ ~add_lost_item_report_response(loc'[t], pc'[t]).has_retrain_result
                 /\ loc'[t].decision = InitLoc.decision
                 /\ UNCHANGED <<versions, version_file, training_data_file>>
                 /\ IF pc[t] = "add_sample"
                    THEN UNCHANGED buffer_file
                    ELSE buffer_file'.rows = loc[t].df_existing]_vars

=============================================================================
